---- MODULE Spec2Model ----
(***************************************************************************)
(* Model of streamlit_app.py: one scraping cycle of main() (browser start, *)
(* fetch_data, parse_race_data, driver.quit in the finally block) and the  *)
(* table extraction of parse_race_data as a pure operator.                 *)
(*                                                                         *)
(* An HTML document is the sequence of its <table> elements in document    *)
(* order; a table is its class attribute and the sequence of its <tr>      *)
(* rows; a row is the sequence of the raw texts of its <td>/<th> cells; a  *)
(* text is a sequence of characters.  Calls into the browser are steps     *)
(* whose outcome (return or raise) is chosen by the environment.           *)
(***************************************************************************)
EXTENDS Integers, Sequences, FiniteSets, TLC

VARIABLES pc, debug_mode, driver, html_content, df, errors, texts, calls,
          cause, raised

vars == <<pc, debug_mode, driver, html_content, df, errors, texts, calls,
          cause, raised>>

----------------------------------------------------------------------------
(* Bounds of the explored inputs *)

MaxTables == 2
MaxRows == 3
MaxCells == 3

(* class of the results table, find_all / wait_for_selector *)
MarkerClass == "compact-styled-table"

(* raw cell texts: whitespace only, and a word followed by whitespace *)
RawTexts == { <<" ">>, <<"a", " ">> }

SeqsUpTo(S, n) == UNION { [1..k -> S] : k \in 0..n }

RowSet == SeqsUpTo(RawTexts, MaxCells)

MarkerTables(r) == { [class |-> MarkerClass, rows |-> rs] : rs \in SeqsUpTo(RowSet, r) }

(* tables of another class: an empty one, and one that would be a valid    *)
(* result table if it carried the marker class                             *)
OtherTables ==
    { [class |-> "other", rows |-> rs] :
        rs \in { <<>>, << <<<<"a", " ">>, <<"a", " ">>>>, <<<<"a", " ">>, <<" ">>>> >> } }

TableSet(r) == MarkerTables(r) \cup OtherTables

(* documents of n tables have tables of at most MaxRows + 1 - n rows *)
Htmls == { <<>> } \cup UNION { [1..n -> TableSet(MaxRows + 1 - n)] : n \in 1..MaxTables }

----------------------------------------------------------------------------
(* Python values *)

(* None, and a DataFrame, as the values parse_race_data returns *)
None == [isdf |-> FALSE, columns |-> <<>>, rows |-> <<>>]

(* the missing value pandas puts in a padded cell *)
NA == <<"NaN">>

NoHtml == [none |-> TRUE, doc |-> <<>>]

----------------------------------------------------------------------------
(* Text and sequence helpers *)

RECURSIVE lstrip(_)
lstrip(s) == IF s # <<>> /\ Head(s) = " " THEN lstrip(Tail(s)) ELSE s

RECURSIVE rstrip(_)
rstrip(s) ==
    IF s # <<>> /\ s[Len(s)] = " " THEN rstrip(SubSeq(s, 1, Len(s) - 1)) ELSE s

(* col.get_text(strip=True) *)
get_text(cell) == rstrip(lstrip(cell))

(* [x.get_text(strip=True) for x in row.find_all(['td', 'th'])] *)
row_texts(row) == [i \in 1..Len(row) |-> get_text(row[i])]

(* any(row_data): some text is a non-empty string *)
any(row_data) == \E i \in 1..Len(row_data) : row_data[i] # <<>>

find_all_any_class(html) == html

(* soup.find_all('table', {'class': 'compact-styled-table'}) *)
find_all_tables(html) == SelectSeq(html, LAMBDA t : t.class = MarkerClass)

header_check_one(headers) == Len(headers) < 1

(* not headers or len(headers) < 2 *)
header_rejected(headers) == headers = <<>> \/ Len(headers) < 2

(* the data rows collected by the loop over rows[1:] *)
extract_data_rows(rows) ==
    LET rest == SubSeq(rows, 2, Len(rows))
        kept == SelectSeq(rest, LAMBDA row : row # <<>> /\ any(row_texts(row)))
    IN  [i \in 1..Len(kept) |-> row_texts(kept[i])]

----------------------------------------------------------------------------
(* pandas *)

RECURSIVE MaxLen(_)
MaxLen(data) ==
    IF data = <<>> THEN 0
    ELSE LET m == MaxLen(Tail(data))
         IN  IF Len(Head(data)) > m THEN Len(Head(data)) ELSE m

(* lib.to_object_array: every row padded with missing values to the width  *)
(* of the longest row                                                      *)
to_object_array(data) ==
    LET k == MaxLen(data)
    IN  [i \in 1..Len(data) |->
            [j \in 1..k |-> IF j <= Len(data[i]) THEN data[i][j] ELSE NA]]

DataFrame_truncating(data, columns) ==
    [raised |-> FALSE,
     df |-> [isdf |-> TRUE, columns |-> columns,
             rows |-> [i \in 1..Len(data) |->
                         [j \in 1..Len(columns) |->
                             IF j <= Len(data[i]) THEN data[i][j] ELSE NA]]]]

(* pd.DataFrame(data_rows, columns=headers): raises when the width of the  *)
(* data differs from the number of columns passed                          *)
DataFrame(data, columns) ==
    LET content == to_object_array(data)
    IN  IF MaxLen(data) # Len(columns)
        THEN [raised |-> TRUE, df |-> None]
        ELSE [raised |-> FALSE,
              df |-> [isdf |-> TRUE, columns |-> columns, rows |-> content]]

(* df.dropna(how='all'): drop the rows whose every cell is missing *)
dropna_rows(d) ==
    [d EXCEPT !.rows =
        SelectSeq(d.rows, LAMBDA r : \E j \in 1..Len(r) : r[j] # NA)]

KeptCols(d) ==
    { j \in 1..Len(d.columns) : \E i \in 1..Len(d.rows) : d.rows[i][j] # NA }

RECURSIVE Pick(_, _, _)
Pick(s, keep, j) ==
    IF j > Len(s) THEN <<>>
    ELSE (IF j \in keep THEN <<s[j]>> ELSE <<>>) \o Pick(s, keep, j + 1)

dropna_cols_empty_text(d) ==
    LET keep == { j \in 1..Len(d.columns) :
                    \E i \in 1..Len(d.rows) : d.rows[i][j] \notin {NA, <<>>} }
    IN  [d EXCEPT !.columns = Pick(d.columns, keep, 1),
                  !.rows = [i \in 1..Len(d.rows) |-> Pick(d.rows[i], keep, 1)]]

(* df.dropna(axis=1, how='all'): drop the columns whose every cell is missing *)
dropna_cols(d) ==
    LET keep == KeptCols(d)
    IN  [d EXCEPT !.columns = Pick(d.columns, keep, 1),
                  !.rows = [i \in 1..Len(d.rows) |-> Pick(d.rows[i], keep, 1)]]

----------------------------------------------------------------------------
(* parse_race_data *)

except_returns_in_debug(debug, rest) ==
    IF debug
    THEN [ret |-> None, errors |-> <<>>, texts |-> <<"Error processing table">>,
          stop |-> TRUE]
    ELSE [ret |-> None, errors |-> <<>>, texts |-> <<>>, stop |-> FALSE]

(* except Exception as e: trace in debug mode, then continue *)
except_continue(debug, rest) ==
    [ret |-> None, errors |-> <<>>,
     texts |-> IF debug THEN <<"Error processing table">> ELSE <<>>,
     stop |-> FALSE]

(* one iteration of "for table in tables": stop = the function returns *)
process_table(table, debug) ==
    LET rows == table.rows
        skip == [ret |-> None, errors |-> <<>>, texts |-> <<>>, stop |-> FALSE]
    IN  IF rows = <<>> THEN skip
        ELSE LET headers == row_texts(rows[1])
             IN  IF header_rejected(headers) THEN skip
                 ELSE LET t1 == IF debug THEN <<"Processing table with headers">>
                                ELSE <<>>
                          data_rows == extract_data_rows(rows)
                      IN  IF data_rows = <<>>
                          THEN [skip EXCEPT !.texts = t1]
                          ELSE LET r == DataFrame(data_rows, headers)
                               IN  IF r.raised
                                   THEN LET h == except_continue(debug, table)
                                        IN  [h EXCEPT !.texts = t1 \o h.texts]
                                   ELSE [ret |-> dropna_cols(dropna_rows(r.df)),
                                         errors |-> <<>>, texts |-> t1,
                                         stop |-> TRUE]

RECURSIVE scan_backwards(_, _)
scan_backwards(tables, debug) ==
    IF tables = <<>>
    THEN [ret |-> None, errors |-> <<"No valid race data found in any table">>,
          texts |-> <<>>]
    ELSE LET p == process_table(tables[Len(tables)], debug)
         IN  IF p.stop
             THEN [ret |-> p.ret, errors |-> p.errors, texts |-> p.texts]
             ELSE LET q == scan_backwards(SubSeq(tables, 1, Len(tables) - 1), debug)
                  IN  [q EXCEPT !.texts = p.texts \o q.texts]

(* the loop "for table in tables" and the failure after it *)
RECURSIVE scan_tables(_, _)
scan_tables(tables, debug) ==
    IF tables = <<>>
    THEN [ret |-> None, errors |-> <<"No valid race data found in any table">>,
          texts |-> <<>>]
    ELSE LET p == process_table(Head(tables), debug)
         IN  IF p.stop
             THEN [ret |-> p.ret, errors |-> p.errors, texts |-> p.texts]
             ELSE LET q == scan_tables(Tail(tables), debug)
                  IN  [q EXCEPT !.texts = p.texts \o q.texts]

(* parse_race_data(html_content) under st.session_state.debug_mode = debug: *)
(* the value returned, the st.error messages and the st.text traces        *)
parse_race_data(html, debug) ==
    LET tables == find_all_tables(html)
        t0 == IF debug THEN <<"Parsing HTML content...", "Found race data tables">>
              ELSE <<>>
    IN  IF tables = <<>>
        THEN [ret |-> None, errors |-> <<"No race data tables found">>, texts |-> t0]
        ELSE LET s == scan_tables(tables, debug)
             IN  [s EXCEPT !.texts = t0 \o s.texts]

----------------------------------------------------------------------------
(* setup_selenium and fetch_data: the except blocks *)

(* except Exception as e: st.error(...); return None *)
setup_selenium_except(e) ==
    [ret |-> "None", errors |-> <<"Error setting up Chrome driver">>, raised |-> FALSE]

fetch_data_reraise(e) ==
    [ret |-> NoHtml, errors |-> <<>>, raised |-> TRUE]

(* except Exception as e: st.error(f"Error fetching data: {str(e)}"); return None *)
fetch_data_except(e) ==
    [ret |-> NoHtml, errors |-> <<"Error fetching data">>, raised |-> FALSE]

----------------------------------------------------------------------------
(* main: one script run per click of "Start Scraping" *)

Init ==
    /\ pc = "idle"
    /\ debug_mode = FALSE
    /\ driver = "None"
    /\ html_content = NoHtml
    /\ df = None
    /\ errors = <<>>
    /\ texts = <<>>
    /\ calls = <<>>
    /\ cause = "none"
    /\ raised = FALSE

(* the script runs with the button clicked: the checkbox sets debug_mode   *)
(* and the locals of the previous run are gone                             *)
StartScraping ==
    /\ pc \in {"idle", "done"}
    /\ \E d \in BOOLEAN :
          /\ debug_mode' = d
          /\ texts' = IF d THEN <<"Attempting to scrape">> ELSE <<>>
    /\ pc' = "setup_selenium"
    /\ driver' = "None"
    /\ html_content' = NoHtml
    /\ df' = None
    /\ errors' = <<>>
    /\ calls' = <<>>
    /\ cause' = "none"
    /\ raised' = FALSE

(* driver = setup_selenium() returns a driver *)
SetupSeleniumOk ==
    /\ pc = "setup_selenium"
    /\ driver' = "open"
    /\ calls' = Append(calls, "start")
    /\ pc' = "goto"
    /\ UNCHANGED <<debug_mode, html_content, df, errors, texts, cause, raised>>

(* webdriver.Chrome raises: setup_selenium returns None and main returns *)
SetupSeleniumFail ==
    /\ pc = "setup_selenium"
    /\ LET h == setup_selenium_except("WebDriverException")
       IN  /\ raised' = h.raised
           /\ driver' = h.ret
           /\ errors' = IF h.raised THEN errors \o h.errors
                        ELSE errors \o h.errors \o <<"Failed to initialize Chrome driver">>
    /\ calls' = Append(calls, "start")
    /\ cause' = "BrowserInitError"
    /\ pc' = "done"
    /\ UNCHANGED <<debug_mode, html_content, df, texts>>

(* page.goto(url) returns.  main passes the driver of setup_selenium as    *)
(* page; whether that object answers goto is the library's, so both        *)
(* outcomes are kept: a missing method raises inside the try (GotoFail)    *)
GotoOk ==
    /\ pc = "goto"
    /\ calls' = Append(calls, "goto")
    /\ pc' = "wait_for_selector"
    /\ UNCHANGED <<debug_mode, driver, html_content, df, errors, texts, cause, raised>>

GotoFailRetry ==
    /\ pc = "goto"
    /\ calls' = Append(calls, "goto")
    /\ pc' = IF Len(calls) < 3 THEN "goto" ELSE "finally"
    /\ cause' = "NavigationError"
    /\ UNCHANGED <<debug_mode, driver, html_content, df, errors, texts, raised>>

(* page.goto(url) raises: fetch_data returns None, main skips to finally *)
GotoFail ==
    /\ pc = "goto"
    /\ LET h == fetch_data_except("NavigationError")
       IN  /\ raised' = h.raised
           /\ html_content' = h.ret
           /\ errors' = errors \o h.errors
    /\ calls' = Append(calls, "goto")
    /\ cause' = "NavigationError"
    /\ pc' = "finally"
    /\ UNCHANGED <<debug_mode, driver, df, texts>>

(* page.wait_for_selector finds the marker element within the timeout *)
WaitOk ==
    /\ pc = "wait_for_selector"
    /\ calls' = Append(calls, "wait")
    /\ pc' = "content"
    /\ UNCHANGED <<debug_mode, driver, html_content, df, errors, texts, cause, raised>>

(* page.wait_for_selector times out *)
WaitTimeout ==
    /\ pc = "wait_for_selector"
    /\ LET h == fetch_data_except("TimeoutError")
       IN  /\ raised' = h.raised
           /\ html_content' = h.ret
           /\ errors' = errors \o h.errors
    /\ calls' = Append(calls, "wait")
    /\ cause' = "RenderTimeout"
    /\ pc' = "finally"
    /\ UNCHANGED <<debug_mode, driver, df, texts>>

(* return page.content(): the rendered document *)
Content ==
    /\ pc = "content"
    /\ \E h \in Htmls : html_content' = [none |-> FALSE, doc |-> h]
    /\ calls' = Append(calls, "content")
    /\ texts' = IF debug_mode THEN Append(texts, "Retrieved characters of HTML")
                ELSE texts
    /\ pc' = "parse"
    /\ UNCHANGED <<debug_mode, driver, df, errors, cause, raised>>

(* df = parse_race_data(html_content) and the report of its outcome *)
Parse ==
    /\ pc = "parse"
    /\ ~html_content.none
    /\ LET r == parse_race_data(html_content.doc, debug_mode)
       IN  /\ df' = r.ret
           /\ errors' = IF r.ret.isdf THEN errors \o r.errors
                        ELSE errors \o r.errors \o <<"Failed to parse data from the page">>
           /\ texts' = IF r.ret.isdf \/ ~debug_mode THEN texts \o r.texts
                       ELSE texts \o r.texts \o <<"HTML Preview (first 1000 characters):">>
           /\ cause' = IF r.ret.isdf THEN "none"
                       ELSE IF r.errors = <<"No race data tables found">>
                            THEN "NoTableFound" ELSE "NoValidData"
    /\ calls' = Append(calls, "parse")
    /\ pc' = "finally"
    /\ UNCHANGED <<debug_mode, driver, html_content, raised>>

FinallyNoQuitOnFailure ==
    /\ pc = "finally"
    /\ driver' = IF html_content.none THEN driver ELSE "closed"
    /\ calls' = Append(calls, "quit")
    /\ pc' = "done"
    /\ UNCHANGED <<debug_mode, html_content, df, errors, texts, cause, raised>>

(* finally: driver.quit() *)
Finally ==
    /\ pc = "finally"
    /\ driver' = "closed"
    /\ calls' = Append(calls, "quit")
    /\ pc' = "done"
    /\ UNCHANGED <<debug_mode, html_content, df, errors, texts, cause, raised>>

Next ==
    \/ StartScraping
    \/ SetupSeleniumOk
    \/ SetupSeleniumFail
    \/ GotoOk
    \/ GotoFail
    \/ WaitOk
    \/ WaitTimeout
    \/ Content
    \/ Parse
    \/ Finally

Spec == Init /\ [][Next]_vars

----------------------------------------------------------------------------
(* Vocabulary of the properties *)

Has(c) == \E i \in 1..Len(calls) : calls[i] = c

(* parse_race_data has returned in this cycle *)
Extracted == Has("parse")

doc == html_content.doc

(* the candidate tables: those of the marker class, in document order *)
RECURSIVE Candidates(_)
Candidates(h) ==
    IF h = <<>> THEN <<>>
    ELSE (IF Head(h).class = MarkerClass THEN <<Head(h)>> ELSE <<>>)
         \o Candidates(Tail(h))

HeaderCells(t) == IF t.rows = <<>> THEN <<>> ELSE row_texts(t.rows[1])

NonEmptyCount(h) == Cardinality({ i \in 1..Len(h) : h[i] # <<>> })

(* the data rows that are not fully empty, trimmed *)
Surviving(t) == extract_data_rows(t.rows)

(* valid as the specification words it *)
SpecValid(t) ==
    /\ Len(t.rows) >= 2
    /\ NonEmptyCount(HeaderCells(t)) >= 2
    /\ Surviving(t) # <<>>

(* valid as the code decides it *)
CodeValid(t) ==
    /\ Len(HeaderCells(t)) >= 2
    /\ Surviving(t) # <<>>
    /\ \A i \in 1..Len(Surviving(t)) : Len(Surviving(t)[i]) <= Len(HeaderCells(t))
    /\ \E i \in 1..Len(Surviving(t)) : Len(Surviving(t)[i]) = Len(HeaderCells(t))

(* the table a candidate stands for: its header over its surviving rows,   *)
(* cells paired by position, absent trailing cells missing                 *)
ExpectedTable(t) ==
    [isdf |-> TRUE,
     columns |-> HeaderCells(t),
     rows |-> [i \in 1..Len(Surviving(t)) |->
                 [j \in 1..Len(HeaderCells(t)) |->
                     IF j <= Len(Surviving(t)[i]) THEN Surviving(t)[i][j] ELSE NA]]]

Least(S) == CHOOSE i \in S : \A j \in S : i <= j

RenderFailures == {"BrowserInitError", "NavigationError", "RenderTimeout"}

NoTableFoundReported ==
    errors = <<"No race data tables found", "Failed to parse data from the page">>

NoValidDataReported ==
    errors = <<"No valid race data found in any table",
               "Failed to parse data from the page">>

(* what the caller can read off the value it got back from the failed step *)
ReturnedTag ==
    IF cause = "BrowserInitError" THEN driver
    ELSE IF cause \in {"NavigationError", "RenderTimeout"}
         THEN (IF html_content.none THEN "None" ELSE "html")
         ELSE (IF df.isdf THEN "DataFrame" ELSE "None")

----------------------------------------------------------------------------
(* C1: at the end of every cycle no browser session is open; a session     *)
(* that was acquired has been closed, whichever way the cycle ended.       *)
C1_SessionReleased ==
    pc = "done" =>
        /\ driver # "open"
        /\ (cause # "BrowserInitError" => driver = "closed")

C1_Witness ==
    /\ pc = "done"
    /\ cause = "RenderTimeout"
    /\ driver = "closed"

(* C2 as amended: the table returned is the one built from the first       *)
(* candidate, in document order, that has at least two header cells, a     *)
(* surviving data row, and a longest surviving row exactly as wide as the  *)
(* header; with no such candidate no table is returned.                    *)
C2_FirstBuildable ==
    Extracted =>
        LET c == Candidates(doc)
            W == { i \in 1..Len(c) : CodeValid(c[i]) }
        IN  IF W = {} THEN ~df.isdf
            ELSE df = ExpectedTable(c[Least(W)])

C2_Witness ==
    /\ Extracted
    /\ LET c == Candidates(doc)
       IN  /\ Len(c) = 2
           /\ CodeValid(c[1])
           /\ CodeValid(c[2])
           /\ ExpectedTable(c[1]) # ExpectedTable(c[2])
           /\ df = ExpectedTable(c[1])

(* C2 as written: the table returned is the one built from the first       *)
(* candidate with an acceptable header and a surviving data row.           *)
C2_Original ==
    Extracted =>
        LET c == Candidates(doc)
            V == { i \in 1..Len(c) : SpecValid(c[i]) }
        IN  IF V = {} THEN ~df.isdf
            ELSE df.isdf /\ df.columns = HeaderCells(c[Least(V)])

(* C3 as amended: when every candidate's header row has fewer than 2 cells *)
(* (empty or not), extract reports "no valid data" and returns no table.   *)
C3_FewHeaderCells ==
    (/\ Extracted
     /\ Candidates(doc) # <<>>
     /\ \A i \in 1..Len(Candidates(doc)) : Len(HeaderCells(Candidates(doc)[i])) < 2)
    => (~df.isdf /\ NoValidDataReported)

C3_Witness ==
    /\ Extracted
    /\ Candidates(doc) # <<>>
    /\ \A i \in 1..Len(Candidates(doc)) : Len(HeaderCells(Candidates(doc)[i])) < 2
    /\ \E i \in 1..Len(Candidates(doc)) :
          /\ Len(HeaderCells(Candidates(doc)[i])) = 1
          /\ Surviving(Candidates(doc)[i]) # <<>>
    /\ NoValidDataReported

(* C3 as written: when every candidate's header row has fewer than 2       *)
(* non-empty cells, extract reports "no valid data" and returns no table.  *)
C3_Original ==
    (/\ Extracted
     /\ Candidates(doc) # <<>>
     /\ \A i \in 1..Len(Candidates(doc)) :
           NonEmptyCount(HeaderCells(Candidates(doc)[i])) < 2)
    => (~df.isdf /\ NoValidDataReported)

(* C4: with a single candidate that is valid and whose surviving rows are  *)
(* all as wide as the header, the table has one row per surviving row and  *)
(* one column per header column that is non-empty in some surviving row.   *)
C4_PrunedShape ==
    (/\ Extracted
     /\ Len(Candidates(doc)) = 1
     /\ SpecValid(Candidates(doc)[1])
     /\ \A i \in 1..Len(Surviving(Candidates(doc)[1])) :
           Len(Surviving(Candidates(doc)[1])[i]) = Len(HeaderCells(Candidates(doc)[1])))
    => LET s == Surviving(Candidates(doc)[1])
           h == HeaderCells(Candidates(doc)[1])
       IN  /\ df.isdf
           /\ Len(df.rows) = Len(s)
           /\ Len(df.columns) =
                 Cardinality({ j \in 1..Len(h) : \E i \in 1..Len(s) : s[i][j] # <<>> })

(* C5 as amended: every failure of a cycle reaches the caller as the one   *)
(* value None with an error message shown, never as a raised exception; a  *)
(* marker-wait timeout and a navigation failure give the same value.       *)
C5_FailuresAreNone ==
    /\ ~raised
    /\ (pc \in {"finally", "done"} /\ cause # "none")
          => (ReturnedTag = "None" /\ errors # <<>>)

C5_Witness ==
    /\ pc = "finally"
    /\ cause = "RenderTimeout"
    /\ html_content = NoHtml
    /\ errors = <<"Error fetching data">>

(* C5 as written: the value a failure hands to the caller carries the tag  *)
(* of its kind, and no exception is raised.                                *)
C5_Original ==
    /\ ~raised
    /\ (pc \in {"finally", "done"} /\ cause # "none") => ReturnedTag = cause

(* C6: a document without a table of the marker class makes extract report *)
(* "no tables found" and return no table, no candidate being processed.    *)
C6_NoTableFound ==
    (Extracted /\ \A i \in 1..Len(doc) : doc[i].class # MarkerClass)
    => /\ ~df.isdf
       /\ NoTableFoundReported
       /\ \A i \in 1..Len(texts) : texts[i] # "Processing table with headers"

C6_Witness ==
    /\ Extracted
    /\ doc # <<>>
    /\ \A i \in 1..Len(doc) : doc[i].class # MarkerClass
    /\ \E i \in 1..Len(doc) : Len(doc[i].rows) >= 2
    /\ NoTableFoundReported

(* C7: what extract returns is no table at all, or a table of at least 2   *)
(* columns and 1 row whose every row has as many cells as the header.      *)
C7_CompleteTable ==
    Extracted =>
        \/ df = None
        \/ /\ df.isdf
           /\ Len(df.columns) >= 2
           /\ Len(df.rows) >= 1
           /\ \A i \in 1..Len(df.rows) : Len(df.rows[i]) = Len(df.columns)

C7_Witness ==
    /\ Extracted
    /\ df.isdf
    /\ \E i \in 1..Len(df.rows) : \E j \in 1..Len(df.rows[i]) : df.rows[i][j] = NA

(* C8: the value and the failure extract gives for a document are those it *)
(* gives for the same document with the trace flag the other way.          *)
C8_TraceFlagIrrelevant ==
    Extracted =>
        LET o == parse_race_data(doc, ~debug_mode)
        IN  /\ df = o.ret
            /\ errors = IF o.ret.isdf THEN o.errors
                        ELSE o.errors \o <<"Failed to parse data from the page">>

C8_Witness ==
    /\ Extracted
    /\ debug_mode
    /\ \E i \in 1..Len(texts) : texts[i] = "Error processing table"
    /\ df.isdf

(* C9 as amended: for the first candidate, accepted with a surviving row:  *)
(* a row longer than the header makes the candidate produce no table (it   *)
(* is skipped, nothing is truncated), and so does a candidate whose every  *)
(* row is shorter; a shorter row is kept, its trailing cells missing, when *)
(* the longest surviving row is exactly as wide as the header.             *)
C9_RaggedRows ==
    (/\ Extracted
     /\ Candidates(doc) # <<>>
     /\ Len(HeaderCells(Candidates(doc)[1])) >= 2
     /\ Surviving(Candidates(doc)[1]) # <<>>)
    => LET c == Candidates(doc)
           s == Surviving(c[1])
           h == HeaderCells(c[1])
       IN  IF MaxLen(s) = Len(h)
           THEN /\ df.isdf
                /\ df.columns = h
                /\ Len(df.rows) = Len(s)
                /\ \A i \in 1..Len(s) : \A j \in 1..Len(h) :
                      df.rows[i][j] = IF j <= Len(s[i]) THEN s[i][j] ELSE NA
           ELSE df.isdf =>
                   \E k \in 2..Len(c) : CodeValid(c[k]) /\ df = ExpectedTable(c[k])

C9_Witness ==
    /\ Extracted
    /\ Len(Candidates(doc)) = 1
    /\ Len(HeaderCells(Candidates(doc)[1])) = 2
    /\ \E i \in 1..Len(Surviving(Candidates(doc)[1])) :
          Len(Surviving(Candidates(doc)[1])[i]) = 3
    /\ ~df.isdf
    /\ NoValidDataReported

(* C9 as written: an accepted first candidate with a surviving row longer  *)
(* or shorter than its header still produces the returned table, with      *)
(* every surviving row kept.                                               *)
C9_Original ==
    (/\ Extracted
     /\ Candidates(doc) # <<>>
     /\ NonEmptyCount(HeaderCells(Candidates(doc)[1])) >= 2
     /\ Surviving(Candidates(doc)[1]) # <<>>
     /\ \E i \in 1..Len(Surviving(Candidates(doc)[1])) :
           Len(Surviving(Candidates(doc)[1])[i]) # Len(HeaderCells(Candidates(doc)[1])))
    => (df.isdf /\ Len(df.rows) = Len(Surviving(Candidates(doc)[1])))

CallOrder == <<"start", "goto", "wait", "content", "parse", "quit">>

(* C10: in a cycle the browser start, the navigation, the marker wait, the *)
(* capture and extract happen at most once each and in that order; extract *)
(* runs only on captured HTML; a render failure is followed by nothing but *)
(* the release of the session, and no table.                               *)
C10_OneAttemptInOrder ==
    /\ \A i \in 1..Len(calls) : \A j \in 1..Len(calls) :
          i < j => \E a \in 1..6 : \E b \in 1..6 :
                      a < b /\ calls[i] = CallOrder[a] /\ calls[j] = CallOrder[b]
    /\ \A i \in 1..Len(calls) :
          calls[i] \in {"goto", "wait", "content", "parse"} =>
             (i > 1 /\ calls[i - 1] = CallOrder[i - 1] /\ calls[i] = CallOrder[i])
    /\ Has("parse") => ~html_content.none
    /\ cause \in RenderFailures =>
          /\ ~Has("content")
          /\ ~Has("parse")
          /\ ~df.isdf
    /\ cause = "BrowserInitError" => calls = <<"start">>
    /\ cause = "NavigationError" => ~Has("wait")

C10_Witness ==
    /\ pc = "done"
    /\ cause = "NavigationError"
    /\ calls = <<"start", "goto", "quit">>
    /\ ~df.isdf

====
